---- MODULE Spec2Model ----
(***************************************************************************)
(* A model of the JSONPath reference implementation: the AST builder       *)
(* (src/src/parser.rs), the AST evaluator (src/src/ast.rs), the public     *)
(* API (src/src/jsonpath.rs) and the matcher pipeline (src/src/path.rs,    *)
(* src/src/matchers.rs).                                                   *)
(*                                                                         *)
(* Machine integers (isize, i64, usize) are modelled with Bits bits        *)
(* instead of 64: every wrap, cast and overflow keeps its shape.           *)
(***************************************************************************)
EXTENDS Integers, Sequences, FiniteSets, TLC

VARIABLES
    overflow_checks, \* the build: TRUE = overflow-checked (debug), FALSE = wrapping (release)
    pc,              \* position in the lifecycle / of the operation under study
    selector,        \* parse: the matcher rules of the selector text
    compiled,        \* parse: its outcome, Ok(Path) | Err | Panic
    document,        \* find: the document of the last evaluation
    found,           \* find: its outcome
    arr,             \* array_slice: the array
    optional_start,  \* array_slice: Option<isize>
    optional_end,    \* array_slice: Option<isize>
    optional_step,   \* array_slice: Option<isize>
    sl,              \* array_slice: its outcome
    node,            \* Selector::find: the input node
    sel,             \* Selector::find: the selector
    res,             \* Selector::find: its outcome
    matchers,        \* SelectorPath: the matchers of the pipeline
    nodes,           \* SelectorPath::find: its outcome
    singleInner,     \* unescape_single: the body of a single-quoted literal
    doubled,         \* unescape_single: d, the body made double-quotable
    unescaped        \* unescape_single: its outcome, Ok(String) | Panic

lifeVars == <<selector, compiled, document, found>>
sliceVars == <<arr, optional_start, optional_end, optional_step, sl>>
selVars == <<node, sel, res, matchers, nodes>>
quoteVars == <<singleInner, doubled, unescaped>>

vars == <<overflow_checks, pc, lifeVars, sliceVars, selVars, quoteVars>>

(***************************************************************************)
(* Bounds of the model.                                                    *)
(***************************************************************************)
Bits == 5
MaxLen == 3
MaxMatchers == 4
MaxUnion == 2
MaxBody == 5

(***************************************************************************)
(* Machine integers.                                                       *)
(***************************************************************************)
Pow2(n) == 2 ^ n
MinInt == -Pow2(Bits - 1)
MaxInt == Pow2(Bits - 1) - 1
ISize == MinInt .. MaxInt

\* `x as usize` of a signed x: two's complement reinterpretation.
AsUsize(x) == x % Pow2(Bits)

\* Option<isize>
None == [some |-> FALSE, v |-> 0]
Some(x) == [some |-> TRUE, v |-> x]

\* unary minus on isize / i64: overflows exactly at the minimum, where it
\* wraps to the minimum again (release) or panics (debug).
Neg(x) == [v |-> IF x = MinInt THEN MinInt ELSE -x, ovf |-> x = MinInt]

(***************************************************************************)
(* serde_json::Value.  An object is the sequence of its members in the     *)
(* order the map iterates them.                                            *)
(***************************************************************************)
Null == [t |-> "null"]
Bool(b) == [t |-> "bool", b |-> b]
Num(n) == [t |-> "num", n |-> n]
Str(s) == [t |-> "str", s |-> s]
Arr(a) == [t |-> "arr", a |-> a]
Obj(m) == [t |-> "obj", m |-> m]
Member(k, v) == [k |-> k, v |-> v]

\* Option<&Value> as a list of at most one element (`.into_iter()`).
\* Value::get(&String): the member of an object, None on anything else.
GetKey(v, name) ==
    IF v.t = "obj"
    THEN LET hits == {i \in 1..Len(v.m) : v.m[i].k = name}
         IN  IF hits = {} THEN <<>> ELSE <<v.m[CHOOSE i \in hits : TRUE].v>>
    ELSE <<>>

\* Value::get(usize): the element of an array, None when out of range or on
\* anything else.
GetIdx(v, i) ==
    IF v.t = "arr" /\ i < Len(v.a) THEN <<v.a[i + 1]>> ELSE <<>>

\* Map::values(): spec.md section 6, "iterate values in insertion order".
MapValues(m) == [i \in 1..Len(m) |-> m[i].v]

(***************************************************************************)
(* Outcomes of an evaluation: the nodes produced, whether it panicked,     *)
(* whether an arithmetic overflow happened, and the loop iterations spent. *)
(***************************************************************************)
Out(o) == [panic |-> FALSE, ovf |-> FALSE, iters |-> 0, out |-> o]
Panicked(n) == [panic |-> TRUE, ovf |-> TRUE, iters |-> n, out |-> <<>>]

\* flat_map / collect: outcomes in sequence.
Then(r1, r2) ==
    [panic |-> r1.panic \/ r2.panic,
     ovf   |-> r1.ovf \/ r2.ovf,
     iters |-> r1.iters + r2.iters,
     out   |-> IF r1.panic \/ r2.panic THEN <<>> ELSE r1.out \o r2.out]

(***************************************************************************)
(* ast.rs: array_slice                                                     *)
(***************************************************************************)
\* for i in (strt..e).step_by(step) { if i < len { sl.push(&arr[i]) } }
RECURSIVE PosLoop(_, _, _, _, _)
PosLoop(a, i, e, step, acc) ==
    IF i >= e
    THEN acc
    ELSE PosLoop(a, i + step, e, step,
                 [acc EXCEPT !.iters = @ + 1,
                             !.out = IF i < Len(a) THEN Append(@, a[i + 1]) ELSE @])

\* for i in (-strt..-e).step_by(-step as usize)
\*     { if 0 <= -i && -i < len { sl.push(&arr[-i as usize]) } }
RECURSIVE NegLoop(_, _, _, _, _)
NegLoop(a, i, hi, step, acc) ==
    IF i >= hi \/ acc.panic
    THEN acc
    ELSE LET n == Neg(i)
             body == IF n.ovf /\ overflow_checks
                     THEN Panicked(acc.iters + 1)
                     ELSE [acc EXCEPT !.iters = @ + 1,
                                      !.ovf = @ \/ n.ovf,
                                      !.out = IF 0 <= n.v /\ n.v < Len(a)
                                              THEN Append(@, a[AsUsize(n.v) + 1])
                                              ELSE @]
         IN  IF i + step > MaxInt
             THEN body
             ELSE NegLoop(a, i + step, hi, step, body)

\* the mutant of SliceStart: an omitted start is the first index whatever the
\* sign of the step
SliceStart_first(len, optional_s, step) ==
    IF optional_s.some
    THEN IF optional_s.v < 0 THEN optional_s.v + len ELSE optional_s.v
    ELSE 0

SliceStart(len, optional_s, step) ==
    IF optional_s.some
    THEN IF optional_s.v < 0 THEN optional_s.v + len ELSE optional_s.v
    ELSE IF step > 0 THEN 0 ELSE len - 1

SliceEnd(len, optional_e, step) ==
    IF optional_e.some
    THEN IF optional_e.v < 0 THEN optional_e.v + len ELSE optional_e.v
    ELSE IF step > 0 THEN len ELSE -1

array_slice(a, o_start, o_end, o_step) ==
    LET step  == IF o_step.some THEN o_step.v ELSE 1
        len   == Len(a)
        start == SliceStart(len, o_start, step)
        end   == SliceEnd(len, o_end, step)
    IN  IF step > 0
        THEN LET strt == IF start < 0 THEN 0 ELSE AsUsize(start)
                 e    == IF end > len THEN len ELSE AsUsize(end)
             IN  PosLoop(a, strt, e, AsUsize(step), Out(<<>>))
        ELSE IF step < 0
        THEN LET strt == IF start > len THEN len ELSE start
                 e    == IF end < -1 THEN -1 ELSE end
                 lo   == Neg(strt)
                 hi   == Neg(e)
                 st   == Neg(step)
                 ovf  == lo.ovf \/ hi.ovf \/ st.ovf
             IN  IF ovf /\ overflow_checks
                 THEN Panicked(0)
                 ELSE NegLoop(a, lo.v, hi.v, AsUsize(st.v),
                              [Out(<<>>) EXCEPT !.ovf = ovf])
        ELSE Out(<<>>)

(***************************************************************************)
(* ast.rs: abs_index, UnionElement::get, Selector::find, Path::find        *)
(***************************************************************************)
Name(n) == [kind |-> "Name", name |-> n]
Slice(s, e, st) == [kind |-> "Slice", start |-> s, end |-> e, step |-> st]
Index(i) == [kind |-> "Index", num |-> i]

Union(es) == [kind |-> "Union", indices |-> es]
DotName(n) == [kind |-> "DotName", name |-> n]
DotWildcard == [kind |-> "DotWildcard"]

Root == [kind |-> "Root"]
Sel(left, s) == [kind |-> "Sel", left |-> left, sel |-> s]

\* the mutant of abs_index: a negative index is not counted from the end
abs_index_unsigned(index, v) == AsUsize(index)

abs_index(index, v) ==
    IF index >= 0
    THEN AsUsize(index)
    ELSE LET len == IF v.t = "arr" THEN Len(v.a) ELSE 0
         IN  AsUsize(len + index)

UnionElement_get(e, v) ==
    IF e.kind = "Name"
    THEN Out(GetKey(v, e.name))
    ELSE IF e.kind = "Slice"
    THEN IF v.t = "arr"
         THEN array_slice(v.a, e.start, e.end, e.step)
         ELSE Out(<<>>)
    ELSE Out(GetIdx(v, abs_index(e.num, v)))

\* indices.iter().flat_map(move |i| i.get(input))
RECURSIVE UnionFlatMap(_, _, _)
UnionFlatMap(indices, k, v) ==
    IF k > Len(indices)
    THEN Out(<<>>)
    ELSE Then(UnionElement_get(indices[k], v), UnionFlatMap(indices, k + 1, v))

\* the mutant of UnionFind: an element equal to an earlier one is skipped
UnionFind_dedup(indices, v) ==
    LET first == SelectSeq([k \in 1..Len(indices) |-> k],
                           LAMBDA k : \A j \in 1..(k - 1) : indices[j] # indices[k])
    IN  UnionFlatMap([k \in 1..Len(first) |-> indices[first[k]]], 1, v)

UnionFind(indices, v) == UnionFlatMap(indices, 1, v)

\* the mutant of DotNameFind: a name is looked up among an array's elements too
DotNameFind_anywhere(name, v) ==
    IF v.t = "arr" /\ Len(v.a) > 0 THEN Out(<<v.a[1]>>) ELSE Out(GetKey(v, name))

DotNameFind(name, v) == Out(GetKey(v, name))

\* the mutant of WildcardFind: only objects have children
WildcardFind_objects(v) ==
    IF v.t = "obj" THEN Out(MapValues(v.m)) ELSE Out(<<>>)

WildcardFind(v) ==
    IF v.t = "obj"
    THEN Out(MapValues(v.m))
    ELSE IF v.t = "arr"
    THEN Out(v.a)
    ELSE Out(<<>>)

Selector_find(s, v) ==
    IF s.kind = "Union"
    THEN UnionFind(s.indices, v)
    ELSE IF s.kind = "DotName"
    THEN DotNameFind(s.name, v)
    ELSE WildcardFind(v)

\* the mutant of FlatMap: the selector is applied to the first node only
FlatMap_first(ns, k, s) ==
    IF k > Len(ns) THEN Out(<<>>) ELSE Selector_find(s, ns[k])

\* left.find(input).flat_map(move |v| sel.find(v))
RECURSIVE FlatMap(_, _, _)
FlatMap(ns, k, s) ==
    IF k > Len(ns)
    THEN Out(<<>>)
    ELSE Then(Selector_find(s, ns[k]), FlatMap(ns, k + 1, s))

RECURSIVE Path_find(_, _)
Path_find(p, input) ==
    IF p.kind = "Root"
    THEN Out(<<input>>)
    ELSE LET left == Path_find(p.left, input)
         IN  IF left.panic THEN left ELSE Then([left EXCEPT !.out = <<>>], FlatMap(left.out, 1, p.sel))

(***************************************************************************)
(* matchers.rs and path.rs: the matcher pipeline                           *)
(***************************************************************************)
RootSelector == [m |-> "RootSelector"]
WildcardedChild == [m |-> "WildcardedChild"]
Child(name) == [m |-> "Child", name |-> name]
ArrayIndex(index) == [m |-> "ArrayIndex", index |-> index]
UnionMatcher(elements) == [m |-> "Union", elements |-> elements]

ArrayIndex_select(index, v) ==
    LET len == IF v.t = "arr" THEN Len(v.a) ELSE 0
    IN  IF index >= 0
        THEN Out(GetIdx(v, AsUsize(index)))
        ELSE LET n == Neg(index)
                 abs == AsUsize(n.v)
             IN  IF n.ovf /\ overflow_checks
                 THEN Panicked(0)
                 ELSE [Out(IF abs < len THEN GetIdx(v, len - abs) ELSE <<>>)
                          EXCEPT !.ovf = n.ovf]

\* the mutant of WildcardedChild_select: only objects have children
WildcardedChild_objects(v) ==
    IF v.t = "obj" THEN Out(MapValues(v.m)) ELSE Out(<<>>)

WildcardedChild_select(v) ==
    IF v.t = "obj"
    THEN Out(MapValues(v.m))
    ELSE IF v.t = "arr"
    THEN Out(v.a)
    ELSE Out(<<>>)

\* self.elements.iter().flat_map(move |it| it.select(node)), on top of
\* the select of every other matcher
RECURSIVE Matcher_select(_, _)
RECURSIVE ElementsFlatMap(_, _, _)
ElementsFlatMap(elements, k, v) ==
    IF k > Len(elements)
    THEN Out(<<>>)
    ELSE Then(Matcher_select(elements[k], v), ElementsFlatMap(elements, k + 1, v))

Matcher_select(m, v) ==
    IF m.m = "RootSelector" THEN Out(<<v>>)
    ELSE IF m.m = "WildcardedChild" THEN WildcardedChild_select(v)
    ELSE IF m.m = "Child" THEN Out(GetKey(v, m.name))
    ELSE IF m.m = "ArrayIndex" THEN ArrayIndex_select(m.index, v)
    ELSE ElementsFlatMap(m.elements, 1, v)

\* nodes.iter().flat_map(|node| matcher.select(node)).collect()
RECURSIVE SelectAll(_, _, _)
SelectAll(ns, k, m) ==
    IF k > Len(ns)
    THEN Out(<<>>)
    ELSE Then(Matcher_select(m, ns[k]), SelectAll(ns, k + 1, m))

doc_node(doc) == <<doc>>

\* (&self.matchers).iter().fold(doc_node(document), |nodes, matcher| ...)
RECURSIVE PipelineFold(_, _, _)
PipelineFold(ms, k, acc) ==
    IF k > Len(ms) \/ acc.panic
    THEN acc
    ELSE PipelineFold(ms, k + 1, Then([acc EXCEPT !.out = <<>>], SelectAll(acc.out, 1, ms[k])))

SelectorPath_find(ms, doc) == PipelineFold(ms, 1, Out(doc_node(doc)))

(***************************************************************************)
(* parser.rs: the AST builder.  A selector text that matches the grammar   *)
(* arrives as its matcher rules (spec.md section 4.1); a string is the     *)
(* sequence of its characters.                                             *)
(***************************************************************************)
Digits == <<"0", "1", "2", "3", "4", "5", "6", "7", "8", "9">>
IsDigit(c) == \E i \in 1..10 : Digits[i] = c
DigitVal(c) == (CHOOSE i \in 1..10 : Digits[i] = c) - 1

HexDigits == Digits \o <<"A", "B", "C", "D", "E", "F">>
IsHex(c) == \E i \in 1..16 : HexDigits[i] = c
HexVal(c) == (CHOOSE i \in 1..16 : HexDigits[i] = c) - 1

Ok(x) == [kind |-> "Ok", v |-> x]
Err == [kind |-> "Err"]
Panic == [kind |-> "Panic"]

\* str::parse::<isize>, str::parse::<i64>: an optional sign, then digits
\* accumulated with checked arithmetic; Err when empty, on a non-digit, or
\* when the value leaves the integer type.
RECURSIVE ParseDigits(_, _, _, _)
ParseDigits(text, k, neg, acc) ==
    IF k > Len(text)
    THEN Ok(acc)
    ELSE IF ~IsDigit(text[k])
    THEN Err
    ELSE LET next == IF neg THEN acc * 10 - DigitVal(text[k])
                            ELSE acc * 10 + DigitVal(text[k])
         IN  IF next < MinInt \/ next > MaxInt
             THEN Err
             ELSE ParseDigits(text, k + 1, neg, next)

ParseInt(text) ==
    IF text = <<>>
    THEN Err
    ELSE IF text[1] = "-" \/ text[1] = "+"
    THEN IF Len(text) = 1 THEN Err ELSE ParseDigits(text, 2, text[1] = "-", 0)
    ELSE ParseDigits(text, 1, FALSE, 0)

\* the character of a \uXXXX escape; code points outside this table are all
\* shown as one replacement character
UnicodeChar(code) ==
    IF code = 97 THEN "a"
    ELSE IF code = 98 THEN "b"
    ELSE IF code = 39 THEN "'"
    ELSE "?"

SimpleEscape(c) ==
    IF c = "n" THEN "\n"
    ELSE IF c = "t" THEN "\t"
    ELSE IF c = "r" THEN "\r"
    ELSE IF c = "f" THEN "\f"
    ELSE IF c = "b" THEN "\\b"
    ELSE c

IsSimpleEscape(c) == c \in {"\"", "\\", "/", "b", "f", "n", "r", "t"}

Hex4(text, k) ==
    ((HexVal(text[k]) * 16 + HexVal(text[k + 1])) * 16 + HexVal(text[k + 2])) * 16
        + HexVal(text[k + 3])

HasHex4(text, k) ==
    k + 3 <= Len(text) /\ \A j \in k..(k + 3) : IsHex(text[j])

\* serde_json::from_str::<String> of the body between two double quotes:
\* Err on a bare double quote, an unknown or truncated escape, or a
\* surrogate that is not half of a pair.
RECURSIVE JsonString(_, _, _)
JsonString(text, k, acc) ==
    IF k > Len(text)
    THEN Ok(acc)
    ELSE IF text[k] = "\""
    THEN Err
    ELSE IF text[k] # "\\"
    THEN JsonString(text, k + 1, Append(acc, text[k]))
    ELSE IF k + 1 > Len(text)
    THEN Err
    ELSE IF text[k + 1] = "u"
    THEN IF ~HasHex4(text, k + 2)
         THEN Err
         ELSE LET hi == Hex4(text, k + 2)
              IN  IF hi >= 56320 /\ hi <= 57343
                  THEN Err
                  ELSE IF hi >= 55296 /\ hi <= 56319
                  THEN IF /\ k + 11 <= Len(text)
                          /\ text[k + 6] = "\\" /\ text[k + 7] = "u"
                          /\ HasHex4(text, k + 8)
                          /\ Hex4(text, k + 8) >= 56320 /\ Hex4(text, k + 8) <= 57343
                       THEN JsonString(text, k + 12, Append(acc, "?"))
                       ELSE Err
                  ELSE JsonString(text, k + 6, Append(acc, UnicodeChar(hi)))
    ELSE IF IsSimpleEscape(text[k + 1])
    THEN JsonString(text, k + 2, Append(acc, SimpleEscape(text[k + 1])))
    ELSE Err

\* serde_json::from_str(&s).unwrap()
unescape(contents) ==
    LET s == JsonString(contents, 1, <<>>)
    IN  IF s.kind = "Ok" THEN s ELSE Panic

RECURSIVE ToDoubleLoop(_, _, _, _)
ToDoubleLoop(contents, k, escaping, output) ==
    IF k > Len(contents)
    THEN output
    ELSE LET ch == contents[k]
         IN  IF ~escaping
             THEN IF ch = "\\"
                  THEN ToDoubleLoop(contents, k + 1, TRUE, output)
                  ELSE ToDoubleLoop(contents, k + 1, FALSE,
                                    IF ch = "\"" THEN output \o <<"\\", ch>>
                                                 ELSE Append(output, ch))
             ELSE ToDoubleLoop(contents, k + 1, FALSE,
                               IF ch # "'" THEN output \o <<"\\", ch>>
                                           ELSE Append(output, ch))

\* the mutant of to_double_quoted: the body is copied as it is
to_double_quoted_verbatim(contents) == contents

to_double_quoted(contents) == ToDoubleLoop(contents, 1, FALSE, <<>>)

unescape_single(contents) == unescape(to_double_quoted(contents))

\* the parse tree (spec.md section 4.1)
WildcardedDotChild == [rule |-> "wildcardedDotChild"]
NamedDotChild(name) == [rule |-> "namedDotChild", childName |-> name]
UnionRule(children) == [rule |-> "union", children |-> children]
UnionChild(inner, text) == [rule |-> "unionChild", inner |-> inner, text |-> text]
UnionArrayIndex(text) == [rule |-> "unionArrayIndex", text |-> text]
UnionArraySlice(children) == [rule |-> "unionArraySlice", children |-> children]
SlicePart(rule, text) == [rule |-> rule, text |-> text]

parse_union_child(r) ==
    LET s == IF r.inner = "doubleInner" THEN unescape(r.text) ELSE unescape_single(r.text)
    IN  IF s.kind = "Ok" THEN Ok(Name(s.v)) ELSE s

parse_union_array_index(r) ==
    LET i == ParseInt(r.text)
    IN  IF i.kind = "Ok" THEN Ok(Index(i.v)) ELSE Err

\* for r in matcher_rule.into_inner() { ... = Some(r.as_str().parse()?) }
RECURSIVE SliceParts(_, _, _)
SliceParts(children, k, slice) ==
    IF k > Len(children)
    THEN Ok(slice)
    ELSE LET i == ParseInt(children[k].text)
         IN  IF i.kind # "Ok"
             THEN Err
             ELSE SliceParts(children, k + 1,
                             IF children[k].rule = "sliceStart"
                             THEN [slice EXCEPT !.start = Some(i.v)]
                             ELSE IF children[k].rule = "sliceEnd"
                             THEN [slice EXCEPT !.end = Some(i.v)]
                             ELSE [slice EXCEPT !.step = Some(i.v)])

parse_union_array_slice(r) == SliceParts(r.children, 1, Slice(None, None, None))

\* .map(...).collect::<Result<Vec<UnionElement>, ParseIntError>>(): the
\* elements in order, up to the first Err
RECURSIVE parse_union_elements(_, _, _)
parse_union_elements(children, k, acc) ==
    IF k > Len(children)
    THEN Ok(acc)
    ELSE LET r == children[k]
             e == IF r.rule = "unionChild" THEN parse_union_child(r)
                  ELSE IF r.rule = "unionArraySlice" THEN parse_union_array_slice(r)
                  ELSE parse_union_array_index(r)
         IN  IF e.kind # "Ok"
             THEN e
             ELSE parse_union_elements(children, k + 1, Append(acc, e.v))

parse_union_indices(r) == parse_union_elements(r.children, 1, <<>>)

parse_child_name(r) == r.childName

parse_selector(r) ==
    IF r.rule = "wildcardedDotChild"
    THEN Ok(DotWildcard)
    ELSE IF r.rule = "namedDotChild"
    THEN Ok(DotName(parse_child_name(r)))
    ELSE LET u == parse_union_indices(r)
         IN  IF u.kind = "Ok" THEN Ok(Union(u.v)) ELSE u

\* .fold(Ok(Path::Root), |prev, r| Ok(Path::Sel(Box::new(prev?), parse_selector(r)?)))
RECURSIVE ParseFold(_, _, _)
ParseFold(rules, k, prev) ==
    IF k > Len(rules) \/ prev.kind = "Panic"
    THEN prev
    ELSE IF prev.kind = "Err"
    THEN ParseFold(rules, k + 1, prev)
    ELSE LET s == parse_selector(rules[k])
         IN  ParseFold(rules, k + 1,
                       IF s.kind = "Ok" THEN Ok(Sel(prev.v, s.v)) ELSE s)

\* the mutant of parse: the matchers are folded from the last to the first
parse_reversed(rules) ==
    ParseFold([k \in 1..Len(rules) |-> rules[Len(rules) + 1 - k]], 1, Ok(Root))

parse(rules) == ParseFold(rules, 1, Ok(Root))

(***************************************************************************)
(* Inputs of the slice study.                                              *)
(***************************************************************************)
\* The array [10, 20, ...] of length n: distinct elements, so that a result
\* tells which indices were emitted.
ArrayOfLen(n) == [i \in 1..n |-> Num(10 * i)]

SliceInts == {MinInt, MinInt + 1, MaxInt - 1, MaxInt} \cup (-(MaxLen + 2) .. (MaxLen + 2))
OptSliceInts == {None} \cup {Some(x) : x \in SliceInts}

Idle == Out(<<>>)

InitSlice ==
    /\ overflow_checks \in BOOLEAN
    /\ pc = "slice"
    /\ arr \in {ArrayOfLen(n) : n \in 0..MaxLen}
    /\ optional_start \in OptSliceInts
    /\ optional_end \in OptSliceInts
    /\ optional_step \in OptSliceInts
    /\ sl = Idle
    /\ selector = <<>> /\ compiled = [kind |-> "None"] /\ document = Null /\ found = Idle
    /\ node = Null /\ sel = DotWildcard /\ res = Idle /\ matchers = <<>> /\ nodes = Idle
    /\ singleInner = <<>> /\ doubled = <<>> /\ unescaped = [kind |-> "None"]

\* UnionElement::Slice on an array: one call of array_slice.
ArraySlice ==
    /\ pc = "slice"
    /\ sl' = array_slice(arr, optional_start, optional_end, optional_step)
    /\ pc' = "sliced"
    /\ UNCHANGED <<overflow_checks, quoteVars, lifeVars, selVars,
                   arr, optional_start, optional_end, optional_step>>

NextSlice == ArraySlice

SpecSlice == InitSlice /\ [][NextSlice]_vars

(***************************************************************************)
(* The slice a reader of spec.md section 4.4 expects, over the unbounded   *)
(* integers: the in-bounds indices met walking from start to end           *)
(* (exclusive) in steps of |step|, in walk order.                          *)
(***************************************************************************)
Reverse(s) == [i \in 1..Len(s) |-> s[Len(s) + 1 - i]]

WalkSlice(a, o_start, o_end, o_step) ==
    LET step  == IF o_step.some THEN o_step.v ELSE 1
        len   == Len(a)
        start == SliceStart(len, o_start, step)
        end   == SliceEnd(len, o_end, step)
        up(i)   == i >= start /\ i < end /\ (i - start) % step = 0
        down(i) == i <= start /\ i > end /\ (start - i) % (-step) = 0
        pick(i) == IF step > 0 THEN up(i) ELSE step < 0 /\ down(i)
        hits  == SelectSeq([i \in 1..len |-> i - 1], pick)
        order == IF step > 0 THEN hits ELSE Reverse(hits)
    IN  [k \in 1..Len(order) |-> a[order[k] + 1]]

\* C1: array_slice returns exactly the elements at the in-bounds indices of
\* the walk from start to end (exclusive) in steps of |step|, in walk order,
\* and nothing for step = 0; clamping changes no emitted index.
C1_SliceIsWalk ==
    pc = "sliced" =>
        /\ ~sl.panic
        /\ sl.out = WalkSlice(arr, optional_start, optional_end, optional_step)

\* C2: the loop of array_slice ends after at most L + 1 iterations, whatever
\* the magnitudes of start, end and step.
C2_LoopBoundedByLen ==
    pc = "sliced" => ~sl.panic /\ sl.iters <= Len(arr) + 1

\* C11: with start and end omitted, step 1 yields the elements of the array in
\* their original order and step -1 yields them in reverse order, on the empty
\* array too; neither panics nor overflows.
C11_IdentityAndReverse ==
    (pc = "sliced" /\ optional_start = None /\ optional_end = None) =>
        /\ optional_step = Some(1) => sl = [Out(arr) EXCEPT !.iters = Len(arr)]
        /\ optional_step = Some(-1) => sl = [Out(Reverse(arr)) EXCEPT !.iters = Len(arr)]

\* C11 witness: the longest array has been sliced with step -1 and came out
\* reversed, which is not the order it went in
C11_Witness ==
    /\ pc = "sliced"
    /\ arr = ArrayOfLen(MaxLen)
    /\ optional_start = None /\ optional_end = None /\ optional_step = Some(-1)
    /\ sl.out = Reverse(arr)
    /\ sl.out # arr

(***************************************************************************)
(* Inputs of the selector study: one selector applied to one node.         *)
(***************************************************************************)
k_a == <<"a">>
k_b == <<"b">>
k_c == <<"c">>

SelNodes ==
    {Arr(ArrayOfLen(n)) : n \in 0..MaxLen}
    \cup {Obj(<<>>),
          Obj(<<Member(k_a, Num(1)), Member(k_b, Num(2))>>),
          Obj(<<Member(k_b, Num(1)), Member(k_a, Num(2))>>)}
    \cup {Str(k_a), Num(7), Bool(TRUE), Null}

IndexInts == {MinInt, MaxInt} \cup (-(MaxLen + 1) .. MaxLen)

UnionElements ==
    {Name(k_a), Name(k_c)}
    \cup {Index(i) : i \in IndexInts}
    \cup {Slice(None, None, None), Slice(Some(1), None, Some(-1))}

SeqsUpTo(S, n) == UNION {[1..m -> S] : m \in 1..n}

SelSelectors ==
    {DotWildcard, DotName(k_a), DotName(k_b), DotName(k_c)}
    \cup {Union(es) : es \in SeqsUpTo(UnionElements, MaxUnion)}
    \cup {Union(<<Index(i)>>) : i \in ISize}

\* the matcher a caller of path::new builds for a selector; slices have none
ElementMatcher(e) == IF e.kind = "Name" THEN Child(e.name) ELSE ArrayIndex(e.num)

HasMatcher(s) ==
    s.kind = "Union" => \A k \in 1..Len(s.indices) : s.indices[k].kind # "Slice"

MatcherOf(s) ==
    IF s.kind = "DotWildcard" THEN WildcardedChild
    ELSE IF s.kind = "DotName" THEN Child(s.name)
    ELSE UnionMatcher([k \in 1..Len(s.indices) |-> ElementMatcher(s.indices[k])])

InitSel ==
    /\ overflow_checks \in BOOLEAN
    /\ pc = "select"
    /\ node \in SelNodes
    /\ sel \in SelSelectors
    /\ res = Idle
    /\ matchers = IF HasMatcher(sel) THEN <<MatcherOf(sel)>> ELSE <<>>
    /\ nodes = Idle
    /\ selector = <<>> /\ compiled = [kind |-> "None"] /\ document = Null /\ found = Idle
    /\ arr = <<>> /\ optional_start = None /\ optional_end = None /\ optional_step = None
    /\ sl = Idle
    /\ singleInner = <<>> /\ doubled = <<>> /\ unescaped = [kind |-> "None"]

\* Selector::find: one selector applied to one node, collected.
Select ==
    /\ pc = "select"
    /\ res' = Selector_find(sel, node)
    /\ pc' = "selected"
    /\ UNCHANGED <<overflow_checks, quoteVars, lifeVars, sliceVars, node, sel, matchers, nodes>>

\* path::new(matchers).find(node): the same node through the matcher pipeline
MatcherSelect ==
    /\ pc = "selected"
    /\ matchers # <<>>
    /\ nodes' = SelectorPath_find(matchers, node)
    /\ pc' = "matched"
    /\ UNCHANGED <<overflow_checks, quoteVars, lifeVars, sliceVars, node, sel, res, matchers>>

NextSel == Select \/ MatcherSelect

Selected == pc \in {"selected", "matched"}

SpecSel == InitSel /\ [][NextSel]_vars

(***************************************************************************)
(* Claims about one selector applied to one node (SpecSel).                *)
(***************************************************************************)
OnlyElement(s) == s.kind = "Union" /\ Len(s.indices) = 1

\* what spec.md section 8 expects of Index(i) on v, over the unbounded integers
ExpectedIndex(v, i) ==
    IF v.t # "arr"
    THEN <<>>
    ELSE LET L == Len(v.a)
         IN  IF 0 <= i /\ i < L
             THEN <<v.a[i + 1]>>
             ELSE IF i < 0 /\ 0 <= L + i /\ L + i < L
             THEN <<v.a[L + i + 1]>>
             ELSE <<>>

\* C3: Index(i).get(arr) is [arr[i]] for 0 <= i < L, [arr[L+i]] for i < 0 with
\* 0 <= L+i < L, and empty otherwise and on every non-array; it never raises
\* and never overflows, also when L + i is negative.
C3_IndexGet ==
    (Selected /\ OnlyElement(sel) /\ sel.indices[1].kind = "Index") =>
        res = Out(ExpectedIndex(node, sel.indices[1].num))

\* C3 witness: a negative index has selected the last element of the longest array
C3_Witness ==
    /\ pc = "selected"
    /\ node = Arr(ArrayOfLen(MaxLen))
    /\ sel = Union(<<Index(-1)>>)
    /\ res.out = <<Num(10 * MaxLen)>>

RECURSIVE Flatten(_)
Flatten(parts) ==
    IF parts = <<>>
    THEN <<>>
    ELSE Flatten(SubSeq(parts, 1, Len(parts) - 1)) \o parts[Len(parts)]

\* C7: Union([e1..en]) on v is e1.get(v) \o ... \o en.get(v), in declared
\* order, nothing deduplicated or reordered.
C7_UnionConcat ==
    /\ (Selected /\ sel.kind = "Union") =>
           LET gets == [k \in 1..Len(sel.indices) |-> UnionElement_get(sel.indices[k], node)]
           IN  /\ res.panic = \E k \in 1..Len(gets) : gets[k].panic
               /\ ~res.panic => res.out = Flatten([k \in 1..Len(gets) |-> gets[k].out])
    /\ (pc = "matched" /\ matchers[1].m = "Union") =>
           LET es == matchers[1].elements
               sels == [k \in 1..Len(es) |-> Matcher_select(es[k], node)]
           IN  /\ nodes.panic = \E k \in 1..Len(sels) : sels[k].panic
               /\ ~nodes.panic => nodes.out = Flatten([k \in 1..Len(sels) |-> sels[k].out])

\* C7 witness: an element listed twice has contributed its match twice
C7_Witness ==
    /\ pc = "selected"
    /\ sel = Union(<<Name(k_a), Name(k_a)>>)
    /\ node = Obj(<<Member(k_a, Num(1)), Member(k_b, Num(2))>>)
    /\ res.out = <<Num(1), Num(1)>>

\* v[k] as a list: the value of the member named k of an object
KeyLookup(v, k) ==
    IF v.t = "obj" /\ \E i \in 1..Len(v.m) : v.m[i].k = k
    THEN <<v.m[CHOOSE i \in 1..Len(v.m) : v.m[i].k = k].v>>
    ELSE <<>>

\* C8: DotName(k) on v is [v[k]] when v is an object with key k and empty
\* otherwise (arrays included); Name(k) yields the same on every v.
C8_DotNameAndName ==
    Selected =>
        /\ sel.kind = "DotName" => res = Out(KeyLookup(node, sel.name))
        /\ (OnlyElement(sel) /\ sel.indices[1].kind = "Name") =>
               res = Out(KeyLookup(node, sel.indices[1].name))

\* C8 witness: a dot-name has selected the member of an object
C8_Witness ==
    /\ pc = "selected"
    /\ sel = DotName(k_b)
    /\ node = Obj(<<Member(k_b, Num(1)), Member(k_a, Num(2))>>)
    /\ res.out = <<Num(1)>>

\* the children of a node, in the order spec.md section 8 gives them
ExpectedChildren(v) ==
    IF v.t = "obj" THEN [i \in 1..Len(v.m) |-> v.m[i].v]
    ELSE IF v.t = "arr" THEN [i \in 1..Len(v.a) |-> v.a[i]]
    ELSE <<>>

C12_ArrayIndexAsIndex ==
    (pc = "matched" /\ OnlyElement(sel) /\ sel.indices[1].kind = "Index") =>
        LET i == sel.indices[1].num
        IN  /\ matchers = <<UnionMatcher(<<ArrayIndex(i)>>)>>
            /\ ~nodes.panic
            /\ (i < 0 /\ node.t = "arr") => nodes.out = ExpectedIndex(node, i)
            /\ nodes.out = res.out

(***************************************************************************)
(* The lifecycle of a query (jsonpath.rs): Unparsed -> parse -> Compiled   *)
(* or Rejected; from Compiled, find on any document, any number of times.  *)
(***************************************************************************)
\* the decimal text of an integer
RECURSIVE DigitsOf(_)
DigitsOf(n) ==
    IF n < 10 THEN <<Digits[n + 1]>> ELSE Append(DigitsOf(n \div 10), Digits[(n % 10) + 1])

Decimal(n) == IF n < 0 THEN <<"-">> \o DigitsOf(-n) ELSE DigitsOf(n)

k_foo == <<"f", "o", "o">>
k_bar == <<"b", "a", "r">>
k_baz == <<"b", "a", "z">>

\* the matchers a selector text is made of
MatcherRules ==
    { WildcardedDotChild,                                         \* .*
      NamedDotChild(k_foo),                                       \* .foo
      UnionRule(<<UnionChild("singleInner", k_bar)>>),            \* ['bar']
      UnionRule(<<UnionArrayIndex(Decimal(4)),
                  UnionArrayIndex(Decimal(-1))>>),                \* [4,-1]
      UnionRule(<<UnionArraySlice(<<SlicePart("sliceStart", Decimal(1))>>)>>),   \* [1:]
      UnionRule(<<UnionArraySlice(<<SlicePart("sliceStep", Decimal(MinInt))>>)>>), \* [::MIN]
      UnionRule(<<UnionArrayIndex(Decimal(MaxInt + 1))>>),        \* [MAX+1]
      UnionRule(<<UnionChild("doubleInner",
                             <<"\\", "u", "D", "8", "0", "0">>)>>) \* ["\uD800"]
    }

Selectors == UNION {[1..n -> MatcherRules] : n \in 0..MaxMatchers}

DemoDocument ==
    Obj(<<Member(k_foo,
            Obj(<<Member(k_bar,
                    Obj(<<Member(k_baz, Arr(ArrayOfLen(6)))>>))>>))>>)

Documents ==
    { DemoDocument,
      Arr(ArrayOfLen(MaxLen)),
      Arr(<<Arr(<<Num(1), Num(2)>>), Arr(<<Num(1)>>)>>),
      Obj(<<Member(k_foo, Arr(<<Num(1), Num(2)>>)), Member(k_bar, Str(k_baz))>>),
      Str(k_foo), Num(7), Bool(FALSE), Null }

Init ==
    /\ overflow_checks \in BOOLEAN
    /\ pc = "Unparsed"
    /\ selector \in Selectors
    /\ compiled = [kind |-> "None"]
    /\ document = Null
    /\ found = Idle
    /\ arr = <<>> /\ optional_start = None /\ optional_end = None /\ optional_step = None
    /\ sl = Idle /\ node = Null /\ sel = DotWildcard /\ res = Idle
    /\ matchers = <<>> /\ nodes = Idle
    /\ singleInner = <<>> /\ doubled = <<>> /\ unescaped = [kind |-> "None"]

\* jsonpath::parse: Ok(Path), Err(SyntaxError), or a panic on the way
Parse ==
    /\ pc = "Unparsed"
    /\ compiled' = parse(selector)
    /\ pc' = IF compiled'.kind = "Ok" THEN "Compiled"
             ELSE IF compiled'.kind = "Err" THEN "Rejected"
             ELSE "ParsePanicked"
    /\ UNCHANGED <<overflow_checks, quoteVars, selector, document, found, sliceVars, selVars>>

\* jsonpath::Path::find: Ok(self.0.find(document).collect())
Find(doc) ==
    /\ pc = "Compiled"
    /\ document' = doc
    /\ found' = Path_find(compiled.v, doc)
    /\ pc' = IF found'.panic THEN "FindPanicked" ELSE "Found"
    /\ UNCHANGED <<overflow_checks, quoteVars, selector, compiled, sliceVars, selVars>>

\* the selectors of a Path from the leaf to the top; defined only when the
\* left-most leaf is Root
RECURSIVE Spine(_)
Spine(p) == IF p = Root THEN <<>> ELSE Append(Spine(p.left), p.sel)

\* the matchers a caller of path::new lists for the same query
PathHasMatchers(p) == \A k \in 1..Len(Spine(p)) : HasMatcher(Spine(p)[k])
MatchersOfPath(p) == [k \in 1..Len(Spine(p)) |-> MatcherOf(Spine(p)[k])]

\* path::new(matchers).find(document): the same query through the matcher
\* pipeline of path.rs
PipelineFind(doc) ==
    /\ pc = "Compiled"
    /\ PathHasMatchers(compiled.v)
    /\ document' = doc
    /\ matchers' = MatchersOfPath(compiled.v)
    /\ nodes' = SelectorPath_find(matchers', doc)
    /\ pc' = IF nodes'.panic THEN "FindPanicked" ELSE "Piped"
    /\ UNCHANGED <<overflow_checks, quoteVars, selector, compiled, found, sliceVars, node, sel, res>>

\* the caller lets go of the NodeList: the query is ready for the next find
Drop ==
    /\ pc \in {"Found", "Piped"}
    /\ pc' = "Compiled"
    /\ document' = Null
    /\ found' = Idle
    /\ matchers' = <<>>
    /\ nodes' = Idle
    /\ UNCHANGED <<overflow_checks, quoteVars, selector, compiled, sliceVars, node, sel, res>>

Next ==
    \/ Parse
    \/ \E doc \in Documents : Find(doc)
    \/ \E doc \in Documents : PipelineFind(doc)
    \/ Drop

Spec == Init /\ [][Next]_vars

(***************************************************************************)
(* Claims about the lifecycle (Spec).                                      *)
(***************************************************************************)
\* C4: find completes with Ok and a possibly empty list on every document;
\* no overflow and no panic is reachable during evaluation.
C4_FindTotal ==
    pc \in {"Found", "FindPanicked"} => ~found.panic /\ ~found.ovf

BadInt(text) == ParseInt(text).kind # "Ok"

BadElement(r) ==
    IF r.rule = "unionArrayIndex"
    THEN BadInt(r.text)
    ELSE IF r.rule = "unionArraySlice"
    THEN \E k \in 1..Len(r.children) : BadInt(r.children[k].text)
    ELSE JsonString(IF r.inner = "doubleInner" THEN r.text ELSE to_double_quoted(r.text),
                    1, <<>>).kind # "Ok"

MalformedLiteral(r) ==
    r.rule = "union" /\ \E k \in 1..Len(r.children) : BadElement(r.children[k])

\* C5: a selector that matches the grammar and holds a malformed literal (an
\* integer that does not fit, an escape that cannot be decoded) makes parse
\* return Err, whatever follows it; parse never panics.
C5_MalformedRejected ==
    (pc # "Unparsed" /\ \E k \in 1..Len(selector) : MalformedLiteral(selector[k])) =>
        compiled = Err

\* C6: Sel(inner, selector).find(doc) is the concatenation, in the order of
\* the nodes of inner.find(doc), of selector applied to each node: flattened,
\* order kept, nothing deduplicated.  The matcher pipeline of path.rs
\* composes its matchers the same way.
C6_SelFlattens ==
    /\ (pc = "Found" /\ compiled.v.kind = "Sel") =>
           LET inner == Path_find(compiled.v.left, document)
           IN  /\ ~inner.panic
               /\ found.out = Flatten([k \in 1..Len(inner.out) |->
                                          Selector_find(compiled.v.sel, inner.out[k]).out])
    /\ (pc = "Piped" /\ matchers # <<>>) =>
           LET n == Len(matchers)
               inner == SelectorPath_find(SubSeq(matchers, 1, n - 1), document)
           IN  /\ ~inner.panic
               /\ nodes.out = Flatten([k \in 1..Len(inner.out) |->
                                          Matcher_select(matchers[n], inner.out[k]).out])

DemoSelector ==
    << NamedDotChild(k_foo),
       UnionRule(<<UnionChild("singleInner", k_bar)>>),
       WildcardedDotChild,
       UnionRule(<<UnionArrayIndex(Decimal(4)), UnionArrayIndex(Decimal(-1))>>) >>

\* C6 witness: $.foo['bar'].*[4,-1] on {foo:{bar:{baz:[10,20,30,40,50,60]}}}
\* has given [50, 60]
C6_Witness ==
    /\ pc = "Found"
    /\ selector = DemoSelector
    /\ document = DemoDocument
    /\ found.out = <<Num(50), Num(60)>>

\* C10: the Path parse builds for matchers m1..mn is
\* Sel(...Sel(Sel(Root, m1), m2)..., mn): left-associative, the last matcher
\* on top, Root the left-most leaf, one Sel per matcher in textual order.
C10_LeftAssociative ==
    compiled.kind = "Ok" =>
        LET n == Len(selector)
        IN  /\ Spine(compiled.v) = [k \in 1..n |-> parse_selector(selector[k]).v]
            /\ n = 0 => compiled.v = Root
            /\ n > 0 => /\ compiled.v.kind = "Sel"
                        /\ compiled.v.sel = parse_selector(selector[n]).v

\* C10 witness: $.foo['bar'].*[4,-1] has been compiled, [4,-1] on top and Root
\* four levels down the left
C10_Witness ==
    /\ pc = "Compiled"
    /\ selector = DemoSelector
    /\ compiled.v.sel = Union(<<Index(4), Index(-1)>>)
    /\ compiled.v.left.sel = DotWildcard
    /\ compiled.v.left.left.left.left = Root

(***************************************************************************)
(* The single-quoted literals (parser.rs: unescape_single).  The body of a *)
(* single-quoted literal is a sequence of plain characters, none of them a *)
(* single quote or a backslash, and of escape pairs: a backslash and the   *)
(* character it escapes.                                                   *)
(***************************************************************************)
PlainChars == {"\"", "a", "b", "n"}
EscapedChars == {"'", "\"", "\\", "b", "n"}

RECURSIVE IsBody(_, _)
IsBody(text, k) ==
    IF k > Len(text)
    THEN TRUE
    ELSE IF text[k] = "\\"
    THEN k + 1 <= Len(text) /\ text[k + 1] \in EscapedChars /\ IsBody(text, k + 2)
    ELSE text[k] \in PlainChars /\ IsBody(text, k + 1)

Bodies ==
    {text \in UNION {[1..n -> PlainChars \cup EscapedChars] : n \in 0..MaxBody} :
        IsBody(text, 1)}

InitQuote ==
    /\ overflow_checks \in BOOLEAN
    /\ pc = "quote"
    /\ singleInner \in Bodies
    /\ doubled = <<>>
    /\ unescaped = [kind |-> "None"]
    /\ selector = <<>> /\ compiled = [kind |-> "None"] /\ document = Null /\ found = Idle
    /\ arr = <<>> /\ optional_start = None /\ optional_end = None /\ optional_step = None
    /\ sl = Idle
    /\ node = Null /\ sel = DotWildcard /\ res = Idle /\ matchers = <<>> /\ nodes = Idle

\* unescape_single: let d = to_double_quoted(contents); unescape(&d)
UnescapeSingle ==
    /\ pc = "quote"
    /\ doubled' = to_double_quoted(singleInner)
    /\ unescaped' = unescape(doubled')
    /\ pc' = "quoted"
    /\ UNCHANGED <<overflow_checks, lifeVars, sliceVars, selVars, singleInner>>

NextQuote == UnescapeSingle

SpecQuote == InitQuote /\ [][NextQuote]_vars

(***************************************************************************)
(* Claims about the single-quoted literals (SpecQuote).                    *)
(***************************************************************************)
\* the body read token by token: an escaped single quote becomes the quote
\* alone, a plain double quote gets one backslash in front, every other
\* character and every other escape pair is copied
RECURSIVE TokenImages(_, _)
TokenImages(text, k) ==
    IF k > Len(text)
    THEN <<>>
    ELSE IF text[k] = "\\"
    THEN (IF text[k + 1] = "'" THEN <<"'">> ELSE <<"\\", text[k + 1]>>)
             \o TokenImages(text, k + 2)
    ELSE (IF text[k] = "\"" THEN <<"\\", "\"">> ELSE <<text[k]>>)
             \o TokenImages(text, k + 1)

\* the number of consecutive backslashes that end just before position p
BackslashesBefore(text, p) ==
    Cardinality({n \in 1..(p - 1) : \A j \in (p - n)..(p - 1) : text[j] = "\\"})

\* C13: to_double_quoted turns each \' into ', prefixes each plain " with one
\* backslash, and copies every other character and every other escape pair
\* unchanged and in order; in its output every " follows an odd number of
\* consecutive backslashes.
C13_ToDoubleQuoted ==
    pc = "quoted" =>
        /\ doubled = TokenImages(singleInner, 1)
        /\ \A p \in 1..Len(doubled) :
               doubled[p] = "\"" => BackslashesBefore(doubled, p) % 2 = 1

\* C13 witness: a body with an escaped single quote, a plain double quote and
\* an escaped backslash came out with the first bare, the second escaped and
\* the third as it was
C13_Witness ==
    /\ pc = "quoted"
    /\ singleInner = <<"\\", "'", "\"", "\\", "\\">>
    /\ doubled = <<"'", "\\", "\"", "\\", "\\">>

====
